---- MODULE Spec2Model ----
(***************************************************************************)
(* DataDock backend: the rows of the folders, files, permissions and       *)
(* shared_links tables, the route handlers that read and write them, and   *)
(* the permission helpers the handlers call.  One action is one request    *)
(* handled from start to finish; the handlers whose database calls can     *)
(* interleave with another request's (POST /share/user, GET                *)
(* /share/link/:token) are also given as the two steps their awaits split  *)
(* them into.                                                              *)
(***************************************************************************)
EXTENDS Integers, Sequences, FiniteSets, TLC

VARIABLES
  folders,       \* public.folders:      id -> row
  files,         \* public.files:        id -> row
  permissions,   \* public.permissions:  id -> row
  shared_links,  \* public.shared_links: id -> row
  nextId,        \* the next id each table's default generator hands out
  now,           \* the server clock, in seconds
  reqs,          \* requests suspended at an await, with what they have read
  resp,          \* the response of the last request that finished
  served         \* link id -> the number of resolutions answered with the resource

vars == <<folders, files, permissions, shared_links, nextId, now, reqs, resp, served>>

----------------------------------------------------------------------------
(* Bounds of the model *)

MaxFolders == 3
MaxFiles == 2
MaxPerms == 2
MaxLinks == 1
MaxReqs == 2
MaxAccesses == 2
MaxSlack == 1
TrashFiles == 1
RefFolders == 2
CrumbFolders == 3
ImportRoots == 2
ShareResources == 1
LinkFiles == 1

(* Program constants *)

NULL == 0
RestoreDays == 30
DaySeconds == 86400

Users == {"A", "B"}
Names == {"", "Docs"}
ResourceTypes == {"file", "folder"}
GrantRoles == {"viewer", "editor", "admin"}

FolderIds == 1..MaxFolders
FileIds == 1..MaxFiles
PermIds == 1..MaxPerms
LinkIds == 1..MaxLinks

NoResp == [op |-> "none", status |-> NULL, message |-> ""]

Reply(op, status) ==
  resp' = [op |-> op, status |-> status, message |-> ""]

ReplyMessage(op, status, message) ==
  resp' = [op |-> op, status |-> status, message |-> message]

----------------------------------------------------------------------------
(* Table helpers *)

Table(resourceType) == IF resourceType = "file" THEN files ELSE folders

Insert(table, id, row) == [x \in DOMAIN table \cup {id} |-> IF x = id THEN row ELSE table[x]]

Delete(table, ids) == [x \in DOMAIN table \ ids |-> table[x]]

----------------------------------------------------------------------------
(* utils/permissions.js *)

permissionHierarchy(p) ==
  CASE p = "viewer" -> 1
    [] p = "editor" -> 2
    [] p = "admin" -> 3
    [] p = "owner" -> 4
    [] OTHER -> 0

\* the rows a query on (resource_id, resource_type, user_email) selects
PermissionRows(userEmail, resourceType, resourceId) ==
  {p \in DOMAIN permissions :
     /\ permissions[p].resource_id = resourceId
     /\ permissions[p].resource_type = resourceType
     /\ permissions[p].user_email = userEmail}

\* .single(): the row when the query selects exactly one, an error otherwise
Single(rows) == IF Cardinality(rows) = 1 THEN CHOOSE p \in rows : TRUE ELSE NULL

hasPermission(userEmail, resourceType, resourceId, requiredPermission) ==
  IF resourceId \notin DOMAIN Table(resourceType) THEN FALSE
  ELSE IF Table(resourceType)[resourceId].owner_email = userEmail THEN TRUE
  ELSE LET permission == Single(PermissionRows(userEmail, resourceType, resourceId)) IN
       IF permission = NULL THEN FALSE
       ELSE permissionHierarchy(permissions[permission].permission_type)
              >= permissionHierarchy(requiredPermission)

sharedHierarchyFlat(p) == 1

\* the hierarchy of getPermittedIds (no 'owner' entry); an unknown role is 0
sharedHierarchy(p) ==
  CASE p = "viewer" -> 1
    [] p = "editor" -> 2
    [] p = "admin" -> 3
    [] OTHER -> 0

getPermittedIds(userEmail, resourceType, requiredPermission) ==
  LET ownedIds == {r \in DOMAIN Table(resourceType) :
                     Table(resourceType)[r].owner_email = userEmail}
      permittedSharedIds ==
        {permissions[p].resource_id : p \in
           {q \in DOMAIN permissions :
              /\ permissions[q].resource_type = resourceType
              /\ permissions[q].user_email = userEmail
              /\ sharedHierarchy(permissions[q].permission_type)
                   >= sharedHierarchy(requiredPermission)}}
  IN ownedIds \cup permittedSharedIds

----------------------------------------------------------------------------
(* Folder tree: routes/folders (POST /, PUT /:id/move, DELETE /:id, GET /) *)

\* the ancestors of folder f: its parent, its parent's parent, ...
RECURSIVE AncestorsUpTo(_, _)
AncestorsUpTo(f, n) ==
  IF n = 0 \/ f \notin DOMAIN folders THEN {}
  ELSE LET p == folders[f].parent_id IN
       IF p = NULL THEN {} ELSE {p} \cup AncestorsUpTo(p, n - 1)

Ancestors(f) == AncestorsUpTo(f, Cardinality(DOMAIN folders) + 1)

SubtreeOnlyItself(id) == {id}

\* ON DELETE CASCADE on folders.parent_id: the folders that go with folder id
Subtree(id) == {id} \cup {f \in DOMAIN folders : id \in Ancestors(f)}

CreateFolderInheritsOwner(userEmail, name, parentId) ==
  /\ IF name = "" THEN
       /\ Reply("createFolder", 400)
       /\ UNCHANGED <<folders, nextId>>
     ELSE IF parentId # NULL /\ parentId \notin DOMAIN folders THEN
       /\ Reply("createFolder", 404)
       /\ UNCHANGED <<folders, nextId>>
     ELSE IF /\ parentId # NULL
             /\ folders[parentId].owner_email # userEmail
             /\ parentId \notin getPermittedIds(userEmail, "folder", "viewer") THEN
       /\ Reply("createFolder", 403)
       /\ UNCHANGED <<folders, nextId>>
     ELSE
       /\ nextId.folder <= MaxFolders
       /\ folders' = Insert(folders, nextId.folder,
                            [name |-> name, parent_id |-> parentId,
                             owner_email |-> IF parentId = NULL THEN userEmail
                                             ELSE folders[parentId].owner_email,
                             updated_at |-> now])
       /\ nextId' = [nextId EXCEPT !.folder = @ + 1]
       /\ Reply("createFolder", 200)
  /\ UNCHANGED <<files, permissions, shared_links, now, reqs, served>>

\* POST /folders
CreateFolder(userEmail, name, parentId) ==
  /\ IF name = "" THEN
       /\ Reply("createFolder", 400)
       /\ UNCHANGED <<folders, nextId>>
     ELSE IF parentId # NULL /\ parentId \notin DOMAIN folders THEN
       /\ Reply("createFolder", 404)
       /\ UNCHANGED <<folders, nextId>>
     ELSE IF /\ parentId # NULL
             /\ folders[parentId].owner_email # userEmail
             /\ parentId \notin getPermittedIds(userEmail, "folder", "viewer") THEN
       /\ Reply("createFolder", 403)
       /\ UNCHANGED <<folders, nextId>>
     ELSE
       /\ nextId.folder <= MaxFolders
       /\ folders' = Insert(folders, nextId.folder,
                            [name |-> name, parent_id |-> parentId,
                             owner_email |-> userEmail, updated_at |-> now])
       /\ nextId' = [nextId EXCEPT !.folder = @ + 1]
       /\ Reply("createFolder", 200)
  /\ UNCHANGED <<files, permissions, shared_links, now, reqs, served>>

\* "Prevent circular reference": the check the handler makes before the update
MoveRejected(id, newParentId) == newParentId = id

\* PUT /folders/:id/move
MoveFolder(userEmail, id, newParentId) ==
  /\ IF id \notin DOMAIN folders \/ folders[id].owner_email # userEmail THEN
       /\ Reply("moveFolder", 404)
       /\ UNCHANGED folders
     ELSE IF newParentId # NULL /\ newParentId \notin DOMAIN folders THEN
       /\ Reply("moveFolder", 404)
       /\ UNCHANGED folders
     ELSE IF /\ newParentId # NULL
             /\ folders[newParentId].owner_email # userEmail
             /\ newParentId \notin getPermittedIds(userEmail, "folder", "viewer") THEN
       /\ Reply("moveFolder", 403)
       /\ UNCHANGED folders
     ELSE IF newParentId # NULL /\ MoveRejected(id, newParentId) THEN
       /\ Reply("moveFolder", 400)
       /\ UNCHANGED folders
     ELSE
       /\ folders' = [folders EXCEPT ![id].parent_id = newParentId,
                                     ![id].updated_at = now]
       /\ Reply("moveFolder", 200)
  /\ UNCHANGED <<files, permissions, shared_links, nextId, now, reqs, served>>

\* DELETE /folders/:id: the files of the folder that the caller owns are marked
\* deleted, then the folder row is deleted; the foreign keys of folders.parent_id
\* and files.folder_id are ON DELETE CASCADE
DeleteFolder(userEmail, id) ==
  /\ IF id \notin DOMAIN folders \/ folders[id].owner_email # userEmail THEN
       /\ Reply("deleteFolder", 404)
       /\ UNCHANGED <<folders, files>>
     ELSE
       LET gone == Subtree(id)
           trashed == [x \in DOMAIN files |->
                         IF files[x].folder_id = id /\ files[x].owner_email = userEmail
                         THEN [files[x] EXCEPT !.is_deleted = TRUE, !.deleted_at = now]
                         ELSE files[x]]
       IN /\ folders' = Delete(folders, gone)
          /\ files' = Delete(trashed, {x \in DOMAIN files : files[x].folder_id \in gone})
          /\ Reply("deleteFolder", 200)
  /\ UNCHANGED <<permissions, shared_links, nextId, now, reqs, served>>

\* GET /folders without parentId: the ids of the root folders the caller is shown
ListRootFolders(userEmail) ==
  {f \in DOMAIN folders :
     /\ folders[f].parent_id = NULL
     /\ \/ folders[f].owner_email = userEmail
        \/ f \in getPermittedIds(userEmail, "folder", "viewer")}

----------------------------------------------------------------------------
(* Files: routes/files (POST /upload, DELETE /:id, POST /:id/restore,      *)
(* GET /trash) and routes/files.routes.js (PATCH /files/:id/rename)        *)

\* POST /files/upload: the insert fails on the foreign key of folder_id when
\* the folder does not exist
UploadFile(userEmail, folderId) ==
  /\ IF folderId # NULL /\ folderId \notin DOMAIN folders THEN
       /\ Reply("upload", 500)
       /\ UNCHANGED <<files, nextId>>
     ELSE
       /\ nextId.file <= MaxFiles
       /\ files' = Insert(files, nextId.file,
                          [name |-> "a.txt", folder_id |-> folderId,
                           owner_email |-> userEmail, is_starred |-> FALSE,
                           is_deleted |-> FALSE, deleted_at |-> NULL,
                           updated_at |-> now])
       /\ nextId' = [nextId EXCEPT !.file = @ + 1]
       /\ Reply("upload", 200)
  /\ UNCHANGED <<folders, permissions, shared_links, now, reqs, served>>

\* DELETE /files/:id
SoftDeleteFile(userEmail, id) ==
  /\ IF id \notin DOMAIN files \/ files[id].owner_email # userEmail THEN
       /\ Reply("deleteFile", 404)
       /\ UNCHANGED files
     ELSE
       /\ files' = [files EXCEPT ![id].is_deleted = TRUE, ![id].deleted_at = now]
       /\ Reply("deleteFile", 200)
  /\ UNCHANGED <<folders, permissions, shared_links, nextId, now, reqs, served>>

\* new Date() with setDate(getDate() - 30): the clock 30 days back
thirtyDaysAgo == now - RestoreDays * DaySeconds

RestoreExpiredOffByOne(deletedDate) == deletedDate <= thirtyDaysAgo

\* "Check if file is within 30 days": the restore is refused
RestoreExpired(deletedDate) == deletedDate < thirtyDaysAgo

\* POST /files/:id/restore
RestoreFile(userEmail, id) ==
  /\ IF \/ id \notin DOMAIN files
        \/ files[id].owner_email # userEmail
        \/ ~files[id].is_deleted THEN
       /\ Reply("restore", 404)
       /\ UNCHANGED files
     ELSE IF RestoreExpired(files[id].deleted_at) THEN
       /\ Reply("restore", 400)
       /\ UNCHANGED files
     ELSE
       /\ files' = [files EXCEPT ![id].is_deleted = FALSE, ![id].deleted_at = NULL]
       /\ Reply("restore", 200)
  /\ UNCHANGED <<folders, permissions, shared_links, nextId, now, reqs, served>>

\* GET /files/trash: the ids of the rows the caller is shown
Trash(userEmail) ==
  {x \in DOMAIN files : files[x].owner_email = userEmail /\ files[x].is_deleted}

\* the entries of the trash view: rows of the files table, and of no other table
TrashItems(userEmail) == {[type |-> "file", id |-> x] : x \in Trash(userEmail)}

\* the update of the rename: .eq('id').eq('owner_email').is('deleted_at', null)
RenameTargets(userEmail, id) ==
  {x \in DOMAIN files :
     x = id /\ files[x].owner_email = userEmail /\ files[x].deleted_at = NULL}

\* PATCH /files/:id/rename
RenameFile(userEmail, id, name) ==
  /\ IF name = "" THEN
       /\ Reply("renameFile", 400)
       /\ UNCHANGED files
     ELSE IF ~hasPermission(userEmail, "file", id, "editor") THEN
       /\ Reply("renameFile", 403)
       /\ UNCHANGED files
     ELSE IF RenameTargets(userEmail, id) = {} THEN
       /\ Reply("renameFile", 400)
       /\ UNCHANGED files
     ELSE
       /\ files' = [files EXCEPT ![id].name = name, ![id].updated_at = now]
       /\ Reply("renameFile", 200)
  /\ UNCHANGED <<folders, permissions, shared_links, nextId, now, reqs, served>>

\* time passes, to one of the moments the model looks at
Tick(d, moments) ==
  /\ now + d \in moments
  /\ now' = now + d
  /\ UNCHANGED <<folders, files, permissions, shared_links, nextId, reqs, resp, served>>

----------------------------------------------------------------------------
(* Grants: routes/share (POST /user, DELETE /user/:id)                     *)

\* the slot a request that suspends is kept in
FreeSlot == CHOOSE n \in 1..(MaxReqs + 1) : \A r \in reqs : r.slot # n

\* the checks of POST /share/user before it reads the permissions table:
\* the status it answers with, NULL when it goes on
ShareUserRefusal(grantedBy, resourceId, resourceType, permissionType) ==
  IF permissionType \notin GrantRoles THEN 400
  ELSE IF \/ resourceId \notin DOMAIN Table(resourceType)
          \/ Table(resourceType)[resourceId].owner_email # grantedBy THEN 404
  ELSE NULL

\* "Check if permission already exists": .single(), whose PGRST116 error (no
\* row, or more than one) the handler lets pass
ExistingPermission(userEmail, resourceType, resourceId) ==
  Single(PermissionRows(userEmail, resourceType, resourceId))

\* the message of the answer to a grant
ShareUserMessage(existingPermission) ==
  IF existingPermission # NULL THEN "Permission updated successfully"
  ELSE "Permission granted successfully"

ShareUserWriteAlwaysInsert(existingPermission, grantedBy, resourceId, resourceType, userEmail, permissionType) ==
  Insert(permissions, nextId.perm,
         [resource_id |-> resourceId, resource_type |-> resourceType,
          user_email |-> userEmail, permission_type |-> permissionType,
          granted_by |-> grantedBy])

\* the update of the existing row, or the insert of a new one
ShareUserWrite(existingPermission, grantedBy, resourceId, resourceType, userEmail, permissionType) ==
  IF existingPermission # NULL
  THEN [permissions EXCEPT ![existingPermission].permission_type = permissionType,
                           ![existingPermission].granted_by = grantedBy]
  ELSE Insert(permissions, nextId.perm,
              [resource_id |-> resourceId, resource_type |-> resourceType,
               user_email |-> userEmail, permission_type |-> permissionType,
               granted_by |-> grantedBy])

\* POST /share/user, handled without any other request in between
ShareUser(grantedBy, resourceId, resourceType, userEmail, permissionType) ==
  LET refusal == ShareUserRefusal(grantedBy, resourceId, resourceType, permissionType)
      existingPermission == ExistingPermission(userEmail, resourceType, resourceId)
  IN
  /\ reqs = {}
  /\ IF refusal # NULL THEN
       /\ Reply("shareUser", refusal)
       /\ UNCHANGED <<permissions, nextId>>
     ELSE
       /\ existingPermission = NULL => nextId.perm <= MaxPerms
       /\ permissions' = ShareUserWrite(existingPermission, grantedBy, resourceId,
                                        resourceType, userEmail, permissionType)
       /\ nextId' = IF existingPermission = NULL
                    THEN [nextId EXCEPT !.perm = @ + 1] ELSE nextId
       /\ ReplyMessage("shareUser", 200,
                       ShareUserMessage(existingPermission))
  /\ UNCHANGED <<folders, files, shared_links, now, reqs, served>>

\* POST /share/user up to the await of the existing permission
ShareUserBegin(grantedBy, resourceId, resourceType, userEmail, permissionType) ==
  LET refusal == ShareUserRefusal(grantedBy, resourceId, resourceType, permissionType) IN
  /\ IF refusal # NULL THEN
       /\ Reply("shareUser", refusal)
       /\ UNCHANGED reqs
     ELSE
       /\ Cardinality(reqs) < MaxReqs
       /\ reqs' = reqs \cup
            {[slot |-> FreeSlot, op |-> "shareUser", grantedBy |-> grantedBy,
              resourceId |-> resourceId, resourceType |-> resourceType,
              userEmail |-> userEmail, permissionType |-> permissionType,
              existingPermission |->
                ExistingPermission(userEmail, resourceType, resourceId)]}
       /\ UNCHANGED resp
  /\ UNCHANGED <<folders, files, permissions, shared_links, nextId, now, served>>

\* POST /share/user from that await on: an update that finds its row gone
\* throws at .single() and is answered 500
ShareUserEnd(r) ==
  /\ r.op = "shareUser"
  /\ reqs' = reqs \ {r}
  /\ IF r.existingPermission # NULL /\ r.existingPermission \notin DOMAIN permissions THEN
       /\ Reply("shareUser", 500)
       /\ UNCHANGED <<permissions, nextId>>
     ELSE
       /\ r.existingPermission = NULL => nextId.perm <= MaxPerms
       /\ permissions' = ShareUserWrite(r.existingPermission, r.grantedBy, r.resourceId,
                                        r.resourceType, r.userEmail, r.permissionType)
       /\ nextId' = IF r.existingPermission = NULL
                    THEN [nextId EXCEPT !.perm = @ + 1] ELSE nextId
       /\ ReplyMessage("shareUser", 200,
                       ShareUserMessage(r.existingPermission))
  /\ UNCHANGED <<folders, files, shared_links, now, served>>

\* DELETE /share/user/:id
UnshareUser(grantedBy, id) ==
  /\ IF id \notin DOMAIN permissions \/ permissions[id].granted_by # grantedBy THEN
       /\ Reply("unshareUser", 404)
       /\ UNCHANGED permissions
     ELSE
       /\ permissions' = Delete(permissions, {id})
       /\ Reply("unshareUser", 200)
  /\ UNCHANGED <<folders, files, shared_links, nextId, now, reqs, served>>

----------------------------------------------------------------------------
(* Public links: routes/share (POST /link, GET /link/:token, DELETE        *)
(* /link/:id).  crypto.randomUUID() gives every link a token of its own:   *)
(* the token of link id is id.                                             *)

\* POST /share/link
CreateLink(createdBy, resourceId, resourceType, expiresAt, maxAccesses) ==
  /\ IF \/ resourceId \notin DOMAIN Table(resourceType)
        \/ Table(resourceType)[resourceId].owner_email # createdBy THEN
       /\ Reply("createLink", 404)
       /\ UNCHANGED <<shared_links, nextId, served>>
     ELSE
       /\ nextId.link <= MaxLinks
       /\ shared_links' = Insert(shared_links, nextId.link,
            [resource_id |-> resourceId, resource_type |-> resourceType,
             link_token |-> nextId.link, expires_at |-> expiresAt,
             access_count |-> 0, max_accesses |-> maxAccesses,
             created_by |-> createdBy])
       /\ served' = Insert(served, nextId.link, 0)
       /\ nextId' = [nextId EXCEPT !.link = @ + 1]
       /\ Reply("createLink", 200)
  /\ UNCHANGED <<folders, files, permissions, now, reqs>>

\* the row .eq('link_token', token).single() finds, NULL for none
LinkOfToken(token) ==
  Single({l \in DOMAIN shared_links : shared_links[l].link_token = token})

\* "Check if link has expired"
LinkExpired(sharedLink) ==
  sharedLink.expires_at # NULL /\ sharedLink.expires_at < now

AccessLimitOffByOne(sharedLink) ==
  sharedLink.max_accesses # NULL /\ sharedLink.access_count > sharedLink.max_accesses

\* "Check if max accesses reached"
AccessLimitReached(sharedLink) ==
  sharedLink.max_accesses # NULL /\ sharedLink.access_count >= sharedLink.max_accesses

\* the checks of GET /share/link/:token on the row it has read: the status it
\* answers with, NULL when it goes on to count the access
ResolveRefusal(id) ==
  IF id = NULL THEN 404
  ELSE IF LinkExpired(shared_links[id]) THEN 410
  ELSE IF AccessLimitReached(shared_links[id]) THEN 410
  ELSE NULL

\* "Increment access count": the count read before, plus one, written to the
\* row of that id if it is still there
CountAccess(id, access_count) ==
  IF id \in DOMAIN shared_links
  THEN [shared_links EXCEPT ![id].access_count = access_count + 1]
  ELSE shared_links

\* "Get resource details": the status of the answer
ResourceStatus(resourceType, resourceId) ==
  IF resourceId \notin DOMAIN Table(resourceType) THEN 404
  ELSE IF resourceType = "file" /\ files[resourceId].is_deleted THEN 404
  ELSE 200

\* the resolutions answered with the resource, one more after a 200
Served(id, status) ==
  IF status = 200 THEN [served EXCEPT ![id] = @ + 1] ELSE served

\* GET /share/link/:token, handled without any other request in between
ResolveLink(token) ==
  LET id == LinkOfToken(token)
      refusal == ResolveRefusal(id)
  IN
  /\ reqs = {}
  /\ IF refusal # NULL THEN
       /\ Reply("resolveLink", refusal)
       /\ UNCHANGED <<shared_links, served>>
     ELSE
       LET status == ResourceStatus(shared_links[id].resource_type,
                                    shared_links[id].resource_id) IN
       /\ shared_links[id].access_count <= MaxAccesses
       /\ shared_links' = CountAccess(id, shared_links[id].access_count)
       /\ served' = Served(id, status)
       /\ Reply("resolveLink", status)
  /\ UNCHANGED <<folders, files, permissions, nextId, now, reqs>>

\* GET /share/link/:token up to the await of the update
ResolveLinkBegin(token) ==
  LET id == LinkOfToken(token)
      refusal == ResolveRefusal(id)
  IN
  /\ IF refusal # NULL THEN
       /\ Reply("resolveLink", refusal)
       /\ UNCHANGED reqs
     ELSE
       /\ Cardinality(reqs) < MaxReqs
       /\ shared_links[id].access_count < MaxAccesses + MaxReqs
       /\ served[id] < MaxAccesses + MaxReqs
       /\ reqs' = reqs \cup
            {[slot |-> FreeSlot, op |-> "resolveLink", id |-> id,
              sharedLink |-> shared_links[id]]}
       /\ UNCHANGED resp
  /\ UNCHANGED <<folders, files, permissions, shared_links, nextId, now, served>>

\* GET /share/link/:token from that await on
ResolveLinkEnd(r) ==
  LET status == ResourceStatus(r.sharedLink.resource_type, r.sharedLink.resource_id) IN
  /\ r.op = "resolveLink"
  /\ reqs' = reqs \ {r}
  /\ shared_links' = CountAccess(r.id, r.sharedLink.access_count)
  /\ served' = Served(r.id, status)
  /\ Reply("resolveLink", status)
  /\ UNCHANGED <<folders, files, permissions, nextId, now>>

DeleteLinkAnyCaller(createdBy, id) ==
  /\ IF id \notin DOMAIN shared_links THEN
       /\ Reply("deleteLink", 404)
       /\ UNCHANGED shared_links
     ELSE
       /\ shared_links' = Delete(shared_links, {id})
       /\ Reply("deleteLink", 200)
  /\ UNCHANGED <<folders, files, permissions, nextId, now, reqs, served>>

\* DELETE /share/link/:id
DeleteLink(createdBy, id) ==
  /\ IF id \notin DOMAIN shared_links \/ shared_links[id].created_by # createdBy THEN
       /\ Reply("deleteLink", 404)
       /\ UNCHANGED shared_links
     ELSE
       /\ shared_links' = Delete(shared_links, {id})
       /\ Reply("deleteLink", 200)
  /\ UNCHANGED <<folders, files, permissions, nextId, now, reqs, served>>

----------------------------------------------------------------------------
(* Files: PUT /:id/star, DELETE /:id/permanent, and the reads of routes/files *)
(* and routes/search.  A read is given as the set of file ids among the rows  *)
(* it selects, before .range() cuts a page out of them.                       *)

\* PUT /files/:id/star
StarFile(userEmail, id) ==
  /\ IF id \notin DOMAIN files \/ files[id].owner_email # userEmail THEN
       /\ Reply("starFile", 404)
       /\ UNCHANGED files
     ELSE
       /\ files' = [files EXCEPT ![id].is_starred = ~files[id].is_starred]
       /\ Reply("starFile", 200)
  /\ UNCHANGED <<folders, permissions, shared_links, nextId, now, reqs, served>>

\* the rows DELETE /files/:id/permanent looks for: .eq('id').eq('owner_email')
\* .eq('is_deleted', true)
PurgeTargetsAnyOwned(userEmail, id) ==
  {x \in DOMAIN files : x = id /\ files[x].owner_email = userEmail}

PurgeTargets(userEmail, id) ==
  {x \in DOMAIN files :
     x = id /\ files[x].owner_email = userEmail /\ files[x].is_deleted}

PurgeAbortsOnStorageError(storageError) == storageError

\* "Storage deletion error": logged, and the handler goes on
PurgeAborts(storageError) == FALSE

\* DELETE /files/:id/permanent; storageError is the outcome of the object
\* store's remove
PermanentDelete(userEmail, id, storageError) ==
  /\ IF PurgeTargets(userEmail, id) = {} THEN
       /\ Reply("permanentDelete", 404)
       /\ UNCHANGED files
     ELSE IF PurgeAborts(storageError) THEN
       /\ Reply("permanentDelete", 500)
       /\ UNCHANGED files
     ELSE
       /\ files' = Delete(files, {id})
       /\ Reply("permanentDelete", 200)
  /\ UNCHANGED <<folders, permissions, shared_links, nextId, now, reqs, served>>

\* .ilike('name', '%term%') on the names and terms of the model
ilike(name, term) ==
  <<name, term>> \in {<<"a.txt", "a">>, <<"a.txt", "TXT">>, <<"Docs", "doc">>}

SearchTerms == {"a", "TXT", "doc", "zip"}

\* .eq('is_deleted', false)
NotDeletedAll(x) == TRUE

NotDeleted(x) == ~files[x].is_deleted

\* .or(owner_email.eq.userEmail, id.in.(permittedIds))
OwnedOrPermitted(userEmail, x) ==
  \/ files[x].owner_email = userEmail
  \/ x \in getPermittedIds(userEmail, "file", "viewer")

\* GET /files
ListFiles(userEmail, folderId, search, starred) ==
  {x \in DOMAIN files :
     /\ NotDeleted(x)
     /\ files[x].folder_id = folderId
     /\ OwnedOrPermitted(userEmail, x)
     /\ search # "" => ilike(files[x].name, search)
     /\ starred => files[x].is_starred}

\* GET /files/:id/download and GET /files/:id/view: the status of the answer
\* when the object store gives the signed URL
FileReadStatus(userEmail, id) ==
  IF id \notin DOMAIN files \/ ~NotDeleted(id) THEN 404
  ELSE IF /\ files[id].owner_email # userEmail
          /\ id \notin getPermittedIds(userEmail, "file", "viewer") THEN 403
  ELSE 200

\* the file a download or a view answers with
FileRead(userEmail, id) == IF FileReadStatus(userEmail, id) = 200 THEN {id} ELSE {}

\* GET /search: results.files
Search(userEmail, query, type, starred) ==
  IF type = "folders" THEN {}
  ELSE {x \in DOMAIN files :
          /\ NotDeleted(x)
          /\ ilike(files[x].name, query)
          /\ OwnedOrPermitted(userEmail, x)
          /\ starred => files[x].is_starred}

\* GET /search/starred: results.files
SearchStarred(userEmail, type) ==
  IF type = "folders" THEN {}
  ELSE {x \in DOMAIN files :
          files[x].owner_email = userEmail /\ files[x].is_starred /\ NotDeleted(x)}

\* GET /search/recent: results.files
SearchRecent(userEmail, type) ==
  IF type = "folders" THEN {}
  ELSE {x \in DOMAIN files : files[x].owner_email = userEmail /\ NotDeleted(x)}

\* GET /search/suggestions: the files whose names are suggested
SearchSuggestions(userEmail, query) ==
  {x \in DOMAIN files :
     files[x].owner_email = userEmail /\ NotDeleted(x) /\ ilike(files[x].name, query)}

\* GET /search/advanced: results.files
SearchAdvanced(userEmail, query, starred) ==
  {x \in DOMAIN files :
     /\ files[x].owner_email = userEmail
     /\ NotDeleted(x)
     /\ query # "" => ilike(files[x].name, query)
     /\ starred => files[x].is_starred}

\* GET /search/shared: results.files
SearchShared(userEmail, type) ==
  IF type = "folders" THEN {}
  ELSE {x \in DOMAIN files :
          /\ NotDeleted(x)
          /\ files[x].owner_email # userEmail
          /\ x \in getPermittedIds(userEmail, "file", "viewer")}

SearchTypes == {"all", "files", "folders"}

\* every file some non-trash read returns to userEmail, over all its parameters
NonTrashReads(userEmail) ==
  UNION ({ListFiles(userEmail, f, q, st) :
            f \in {NULL} \cup FolderIds, q \in {""} \cup SearchTerms, st \in BOOLEAN}
         \cup {FileRead(userEmail, x) : x \in FileIds}
         \cup {Search(userEmail, q, t, st) :
                 q \in SearchTerms, t \in SearchTypes, st \in BOOLEAN}
         \cup {SearchStarred(userEmail, t) : t \in SearchTypes}
         \cup {SearchRecent(userEmail, t) : t \in SearchTypes}
         \cup {SearchSuggestions(userEmail, q) : q \in SearchTerms}
         \cup {SearchAdvanced(userEmail, q, st) :
                 q \in {""} \cup SearchTerms, st \in BOOLEAN}
         \cup {SearchShared(userEmail, t) : t \in SearchTypes})

----------------------------------------------------------------------------
(* Breadcrumbs: routes/folders (GET /:id/breadcrumbs) *)

\* "Check if user has access to this folder": the status of the answer when
\* the loop that builds the breadcrumbs ends
BreadcrumbsStatus(userEmail, id) ==
  IF id \notin DOMAIN folders THEN 404
  ELSE IF /\ folders[id].owner_email # userEmail
          /\ id \notin getPermittedIds(userEmail, "folder", "viewer") THEN 403
  ELSE 200

UnshiftAtEnd(breadcrumbs, currentFolder) ==
  Append(breadcrumbs, [id |-> currentFolder, name |-> folders[currentFolder].name])

\* breadcrumbs.unshift({ id, name })
Unshift(breadcrumbs, currentFolder) ==
  <<[id |-> currentFolder, name |-> folders[currentFolder].name]>> \o breadcrumbs

\* while (currentFolder): n is the number of turns left to the loop, which has
\* no end of its own on a parent chain that runs into a cycle
RECURSIVE BuildBreadcrumbs(_, _, _)
BuildBreadcrumbs(breadcrumbs, currentFolder, n) ==
  LET next == Unshift(breadcrumbs, currentFolder)
      parent == folders[currentFolder].parent_id
  IN IF parent = NULL \/ parent \notin DOMAIN folders \/ n = 0 THEN next
     ELSE BuildBreadcrumbs(next, parent, n - 1)

\* res.json({ breadcrumbs }) for folder id, on a parent chain without a cycle
Breadcrumbs(id) == BuildBreadcrumbs(<<>>, id, Cardinality(DOMAIN folders))

\* GET /folders/:id/breadcrumbs up to the first await of the loop: the request
\* holds the row of the folder the walk is at (the array it builds is the one
\* of Breadcrumbs)
BreadcrumbsBegin(userEmail, id) ==
  /\ IF BreadcrumbsStatus(userEmail, id) # 200 THEN
       /\ Reply("breadcrumbs", BreadcrumbsStatus(userEmail, id))
       /\ UNCHANGED reqs
     ELSE
       /\ Cardinality(reqs) < MaxReqs
       /\ reqs' = reqs \cup
            {[slot |-> FreeSlot, op |-> "breadcrumbs",
              currentFolder |-> [id |-> id, parent_id |-> folders[id].parent_id]]}
       /\ UNCHANGED resp
  /\ UNCHANGED <<folders, files, permissions, shared_links, nextId, now, served>>

\* one turn of while (currentFolder): the walk goes to the parent when the row
\* has a parent_id and the parent is found, and answers otherwise
BreadcrumbsTurn(r) ==
  LET parent == r.currentFolder.parent_id IN
  /\ r.op = "breadcrumbs"
  /\ IF parent # NULL /\ parent \in DOMAIN folders THEN
       /\ reqs' = (reqs \ {r}) \cup
            {[r EXCEPT !.currentFolder =
                         [id |-> parent, parent_id |-> folders[parent].parent_id]]}
       /\ UNCHANGED resp
     ELSE
       /\ reqs' = reqs \ {r}
       /\ Reply("breadcrumbs", 200)
  /\ UNCHANGED <<folders, files, permissions, shared_links, nextId, now, served>>

----------------------------------------------------------------------------
(* Import: routes/folders (POST /import), importFolderStructure and         *)
(* importFolderStructureWithFiles.  A structure is a sequence of items, a   *)
(* folder item carrying its contents; the uploaded files are given by name, *)
(* each with the storagePath the handler gives it.                          *)

FolderItem(name, contents) == [type |-> "folder", name |-> name, contents |-> contents]
FileItem(name) == [type |-> "file", name |-> name]

\* the tables and the result arrays a run of the import has got to
ImportStart ==
  [folders |-> folders, files |-> files,
   nextFolder |-> nextId.folder, nextFile |-> nextId.file,
   importedFolders |-> <<>>, importedFiles |-> <<>>]

\* .from('folders').insert([{ name, parent_id, owner_email }])
InsertFolder(acc, name, parentId, userEmail) ==
  [acc EXCEPT !.folders = Insert(@, acc.nextFolder,
                                 [name |-> name, parent_id |-> parentId,
                                  owner_email |-> userEmail, updated_at |-> now]),
              !.nextFolder = @ + 1]

\* .from('files').insert([{ name, folder_id, owner_email, ... }])
InsertFile(acc, name, folderId, userEmail) ==
  [acc EXCEPT !.files = Insert(@, acc.nextFile,
                               [name |-> name, folder_id |-> folderId,
                                owner_email |-> userEmail, is_starred |-> FALSE,
                                is_deleted |-> FALSE, deleted_at |-> NULL,
                                updated_at |-> now]),
              !.nextFile = @ + 1]

NestedParentIsParent(parentId, subfolder) == parentId

\* the parent of the items nested in a folder item: subfolder.id
NestedParent(parentId, subfolder) == subfolder

\* importFolderStructure(structure, parentId, userEmail), from item i on; a file
\* item is passed over
RECURSIVE importFolderStructure(_, _, _, _, _)
importFolderStructure(structure, i, parentId, userEmail, acc) ==
  IF i > Len(structure) THEN acc
  ELSE LET item == structure[i] IN
       IF item.type = "folder" THEN
         LET subfolder == acc.nextFolder
             created == [InsertFolder(acc, item.name, parentId, userEmail)
                           EXCEPT !.importedFolders = Append(@, subfolder)]
             nested == importFolderStructure(item.contents, 1,
                         NestedParent(parentId, subfolder), userEmail,
                         [created EXCEPT !.importedFolders = <<>>])
             after == IF Len(item.contents) > 0
                      THEN [nested EXCEPT !.importedFolders =
                                            created.importedFolders \o nested.importedFolders]
                      ELSE created
         IN importFolderStructure(structure, i + 1, parentId, userEmail, after)
       ELSE importFolderStructure(structure, i + 1, parentId, userEmail, acc)

\* files.find(f => f.name === item.name) with a storagePath
Matched(uploadedFiles, name) == \E k \in 1..Len(uploadedFiles) : uploadedFiles[k] = name

\* importFolderStructureWithFiles(structure, parentId, userEmail, files), from
\* item i on.  The nested call returns { importedFolders, importedFiles } and
\* the caller reads { nestedFolders, nestedFiles } from it: both are undefined,
\* push(...undefined) throws, and the item's catch goes on to the next item
\* with the rows of the nested call inserted and none of them in the arrays.
\* The insert of an item without a matching uploaded file has no storage_path
\* and is refused where the column is NOT NULL (storagePathRequired).
RECURSIVE importFolderStructureWithFiles(_, _, _, _, _, _, _)
importFolderStructureWithFiles(structure, i, parentId, userEmail, uploadedFiles, storagePathRequired, acc) ==
  IF i > Len(structure) THEN acc
  ELSE LET item == structure[i] IN
       IF item.type = "folder" THEN
         LET subfolder == acc.nextFolder
             created == [InsertFolder(acc, item.name, parentId, userEmail)
                           EXCEPT !.importedFolders = Append(@, subfolder)]
             nested == importFolderStructureWithFiles(item.contents, 1,
                         NestedParent(parentId, subfolder), userEmail, uploadedFiles,
                         storagePathRequired,
                         [created EXCEPT !.importedFolders = <<>>, !.importedFiles = <<>>])
             after == IF Len(item.contents) > 0
                      THEN [nested EXCEPT !.importedFolders = created.importedFolders,
                                          !.importedFiles = created.importedFiles]
                      ELSE created
         IN importFolderStructureWithFiles(structure, i + 1, parentId, userEmail,
                                           uploadedFiles, storagePathRequired, after)
       ELSE
         LET after == IF Matched(uploadedFiles, item.name) \/ ~storagePathRequired
                      THEN [InsertFile(acc, item.name, parentId, userEmail)
                              EXCEPT !.importedFiles = Append(@, acc.nextFile)]
                      ELSE acc
         IN importFolderStructureWithFiles(structure, i + 1, parentId, userEmail,
                                           uploadedFiles, storagePathRequired, after)

\* "Also create files directly in the main folder": one row for each uploaded
\* file, from file k on
RECURSIVE DirectFiles(_, _, _, _, _)
DirectFiles(uploadedFiles, k, mainFolder, userEmail, acc) ==
  IF k > Len(uploadedFiles) THEN acc
  ELSE DirectFiles(uploadedFiles, k + 1, mainFolder, userEmail,
                   [InsertFile(acc, uploadedFiles[k], mainFolder, userEmail)
                      EXCEPT !.importedFiles = Append(@, acc.nextFile)])

\* the rows and the arrays of the answer after the main folder is created
ImportResult(userEmail, name, parentId, structure, importMode, uploadedFiles, storagePathRequired) ==
  LET mainFolder == nextId.folder
      main == InsertFolder(ImportStart, name, parentId, userEmail)
  IN IF importMode = "files"
     THEN DirectFiles(uploadedFiles, 1, mainFolder, userEmail,
            importFolderStructureWithFiles(structure, 1, mainFolder, userEmail,
                                           uploadedFiles, storagePathRequired, main))
     ELSE importFolderStructure(structure, 1, mainFolder, userEmail, main)

\* POST /folders/import; the uploaded files are read in files mode only, and
\* the answer in structure mode has no importedFiles
ImportFolder(userEmail, name, parentId, structure, importMode, uploadedFiles, storagePathRequired) ==
  /\ IF name = "" THEN
       /\ Reply("import", 400)
       /\ UNCHANGED <<folders, files, nextId>>
     ELSE IF parentId # NULL /\ parentId \notin DOMAIN folders THEN
       /\ Reply("import", 404)
       /\ UNCHANGED <<folders, files, nextId>>
     ELSE IF /\ parentId # NULL
             /\ folders[parentId].owner_email # userEmail
             /\ parentId \notin getPermittedIds(userEmail, "folder", "viewer") THEN
       /\ Reply("import", 403)
       /\ UNCHANGED <<folders, files, nextId>>
     ELSE
       LET result == ImportResult(userEmail, name, parentId, structure, importMode,
                                  IF importMode = "files" THEN uploadedFiles ELSE <<>>,
                                  storagePathRequired)
       IN /\ folders' = result.folders
          /\ files' = result.files
          /\ nextId' = [nextId EXCEPT !.folder = result.nextFolder,
                                      !.file = result.nextFile]
          /\ resp' = [op |-> "import", status |-> 200, message |-> "",
                      folder |-> nextId.folder,
                      importedFolders |-> result.importedFolders,
                      importedFiles |-> result.importedFiles]
  /\ UNCHANGED <<permissions, shared_links, now, reqs, served>>

----------------------------------------------------------------------------
(* Specifications *)

Empty == [x \in {} |-> NULL]

Init ==
  /\ folders = Empty
  /\ files = Empty
  /\ permissions = Empty
  /\ shared_links = Empty
  /\ nextId = [folder |-> 1, file |-> 1, perm |-> 1, link |-> 1]
  /\ now = 1
  /\ reqs = {}
  /\ resp = NoResp
  /\ served = Empty

OptFolderIds == {NULL} \cup FolderIds

\* Folders and the files in them, one request at a time
NextTree ==
  \/ \E u \in Users, n \in Names, p \in OptFolderIds : CreateFolder(u, n, p)
  \/ \E u \in Users, f \in FolderIds, p \in OptFolderIds : MoveFolder(u, f, p)
  \/ \E u \in Users, f \in FolderIds : DeleteFolder(u, f)
  \/ \E u \in Users, f \in OptFolderIds : UploadFile(u, f)

SpecTree == Init /\ [][NextTree]_vars

\* The trash and its restore window, one request at a time
RestoreWindow == RestoreDays * DaySeconds

\* the first seconds, and the seconds a restore window later
TrashMoments == {1 + k * RestoreWindow + t : k \in 0..1, t \in 0..MaxSlack}

NextTrash ==
  \/ \E u \in Users : nextId.file <= TrashFiles /\ UploadFile(u, NULL)
  \/ \E u \in Users, x \in FileIds : SoftDeleteFile(u, x)
  \/ \E u \in Users, x \in FileIds : RestoreFile(u, x)
  \/ \E d \in {1, RestoreWindow} : Tick(d, TrashMoments)

SpecTrash == Init /\ [][NextTrash]_vars

\* Grants on A's folders, one request at a time
ShareIds == 1..(ShareResources + 1)
InvalidRole == "owner"

NextGrantSeq ==
  \/ \E n \in Names : nextId.folder <= ShareResources /\ CreateFolder("A", n, NULL)
  \/ \E g \in Users, r \in ShareIds, t \in ResourceTypes, u \in Users,
        p \in GrantRoles \cup {InvalidRole} : ShareUser(g, r, t, u, p)
  \/ \E g \in Users, p \in PermIds : UnshareUser(g, p)

SpecGrantSeq == Init /\ [][NextGrantSeq]_vars

\* Grants, and what a grantee may do, one request at a time
NextShareSeq ==
  \/ \E n \in Names : nextId.folder <= ShareResources /\ CreateFolder("A", n, NULL)
  \/ \E f \in {NULL} \cup ShareIds : nextId.file <= ShareResources /\ UploadFile("A", f)
  \/ \E g \in Users, r \in ShareIds, t \in ResourceTypes, u \in Users,
        p \in GrantRoles \cup {InvalidRole} : ShareUser(g, r, t, u, p)
  \/ \E g \in Users, p \in PermIds : UnshareUser(g, p)
  \/ \E u \in Users, x \in ShareIds, n \in Names : RenameFile(u, x, n)
  \/ \E u \in Users, r \in ShareIds, t \in ResourceTypes :
       CreateLink(u, r, t, NULL, NULL)

SpecShareSeq == Init /\ [][NextShareSeq]_vars

\* Grants on folders, with the requests of POST /share/user interleaving at
\* their await
NextShare ==
  \/ \E n \in Names : nextId.folder <= ShareResources /\ CreateFolder("A", n, NULL)
  \/ \E g \in Users, r \in ShareIds, t \in ResourceTypes, u \in Users,
        p \in GrantRoles \cup {InvalidRole} : ShareUserBegin(g, r, t, u, p)
  \/ \E r \in reqs : ShareUserEnd(r)
  \/ \E g \in Users, p \in PermIds : UnshareUser(g, p)

SpecShare == Init /\ [][NextShare]_vars

\* The inputs of the link routes; the clock has a moment before and a moment
\* after a link's expiry
LinkMoments == {1, 2}
Tokens == 1..(MaxLinks + 1)
LinkTargets == 1..(LinkFiles + 1)
OptAccesses == {NULL} \cup 1..MaxAccesses
OptExpiries == {NULL, 1}

\* Public links without expiry on A's files, one request at a time
NextLinkSeq ==
  \/ nextId.file <= LinkFiles /\ UploadFile("A", NULL)
  \/ \E x \in LinkTargets : SoftDeleteFile("A", x)
  \/ \E x \in LinkTargets : RestoreFile("A", x)
  \/ \E r \in LinkTargets, m \in OptAccesses : CreateLink("A", r, "file", NULL, m)
  \/ \E token \in Tokens : ResolveLink(token)
  \/ \E u \in Users, l \in LinkIds : DeleteLink(u, l)

SpecLinkSeq == Init /\ [][NextLinkSeq]_vars

\* Public links, with the requests of GET /share/link/:token interleaving at
\* their await
NextLink ==
  \/ nextId.file <= LinkFiles /\ UploadFile("A", NULL)
  \/ \E u \in Users, x \in LinkTargets : SoftDeleteFile(u, x)
  \/ \E u \in Users, r \in LinkTargets, t \in ResourceTypes,
        e \in OptExpiries, m \in OptAccesses : CreateLink(u, r, t, e, m)
  \/ \E token \in Tokens : ResolveLinkBegin(token)
  \/ \E r \in reqs : ResolveLinkEnd(r)
  \/ \E u \in Users, l \in LinkIds : DeleteLink(u, l)
  \/ Tick(1, LinkMoments)

SpecLink == Init /\ [][NextLink]_vars

\* Files of A and B in the root: trash, purge, stars and viewer grants, one
\* request at a time
NextFiles ==
  \/ \E u \in Users, f \in {NULL, 1} : nextId.file <= TrashFiles /\ UploadFile(u, f)
  \/ \E u \in Users, x \in FileIds : SoftDeleteFile(u, x)
  \/ \E u \in Users, x \in FileIds : RestoreFile(u, x)
  \/ \E u \in Users, x \in FileIds : StarFile(u, x)
  \/ \E u \in Users, x \in FileIds, e \in BOOLEAN : PermanentDelete(u, x, e)
  \/ \E g \in Users, x \in FileIds, u \in Users : ShareUser(g, x, "file", u, "viewer")

SpecFiles == Init /\ [][NextFiles]_vars

\* Folders and the files in them, with the trash and the purge, one request at
\* a time
RefFolderIds == 1..(RefFolders + 1)

NextRefs ==
  \/ \E u \in Users, p \in {NULL} \cup RefFolderIds :
       nextId.folder <= RefFolders /\ CreateFolder(u, "Docs", p)
  \/ \E u \in Users, f \in RefFolderIds, p \in {NULL} \cup RefFolderIds : MoveFolder(u, f, p)
  \/ \E u \in Users, f \in RefFolderIds : DeleteFolder(u, f)
  \/ \E f \in {NULL} \cup RefFolderIds :
       nextId.file <= TrashFiles /\ UploadFile("A", f)
  \/ \E x \in FileIds : SoftDeleteFile("A", x)
  \/ \E x \in FileIds : RestoreFile("A", x)
  \/ \E x \in FileIds : PermanentDelete("A", x, FALSE)

SpecRefs == Init /\ [][NextRefs]_vars

\* Grants on folders and the placing of folders under a parent, one request at
\* a time
NextPlace ==
  \/ \E u \in Users, p \in {NULL} \cup RefFolderIds :
       nextId.folder <= RefFolders /\ CreateFolder(u, "Docs", p)
  \/ \E u \in Users, f \in RefFolderIds, p \in {NULL} \cup RefFolderIds : MoveFolder(u, f, p)
  \/ \E g \in Users, r \in RefFolderIds, u \in Users, p \in GrantRoles :
       ShareUser(g, r, "folder", u, p)

SpecPlace == Init /\ [][NextPlace]_vars

\* Grants of every role on A's folders and on B's files, one request at a time
NextPermitted ==
  \/ nextId.folder <= ShareResources /\ CreateFolder("A", "Docs", NULL)
  \/ nextId.file <= ShareResources /\ UploadFile("B", NULL)
  \/ \E r \in ShareIds, u \in Users, p \in GrantRoles : ShareUser("A", r, "folder", u, p)
  \/ \E r \in ShareIds, p \in GrantRoles : ShareUser("B", r, "file", "A", p)

SpecPermitted == Init /\ [][NextPermitted]_vars

\* A's folders, created and moved, one request at a time
CrumbFolderIds == 1..(CrumbFolders + 1)

NextCrumbs ==
  \/ \E n \in Names, p \in {NULL} \cup CrumbFolderIds :
       nextId.folder <= CrumbFolders /\ CreateFolder("A", n, p)
  \/ \E f \in CrumbFolderIds, p \in {NULL} \cup CrumbFolderIds : MoveFolder("A", f, p)
  \/ \E f \in CrumbFolderIds : DeleteFolder("A", f)

SpecCrumbs == Init /\ [][NextCrumbs]_vars

\* Folders and files of A and B, B holding a viewer grant on A's folder 1:
\* every request that writes a folder or a file row, one at a time
NextOwner ==
  \/ \E u \in Users, p \in {NULL, 1} :
       nextId.folder <= RefFolders /\ CreateFolder(u, "Docs", p)
  \/ \E u \in Users, p \in {NULL, 1} : MoveFolder(u, 2, p)
  \/ \E u \in Users, f \in {NULL, 1} : nextId.file <= TrashFiles /\ UploadFile(u, f)
  \/ \E u \in Users : RenameFile(u, 1, "Docs")
  \/ \E u \in Users : StarFile(u, 1)
  \/ \E u \in Users : SoftDeleteFile(u, 1)
  \/ \E u \in Users : RestoreFile(u, 1)
  \/ ShareUser("A", 1, "folder", "B", "viewer")
  \/ CreateLink("A", 1, "folder", NULL, NULL)

SpecOwner == Init /\ [][NextOwner]_vars

\* Imports by A into the root or into folder 1, one request at a time
ImportStructures ==
  {<<>>,
   <<FileItem("a.txt")>>,
   <<FolderItem("Docs", <<>>), FileItem("a.txt")>>,
   <<FolderItem("Docs", <<FileItem("a.txt")>>)>>,
   <<FolderItem("Docs", <<FolderItem("Sub", <<FileItem("b.txt")>>), FileItem("a.txt")>>),
     FolderItem("Sub", <<>>)>>}

ImportModes == {"structure", "files"}
UploadedFiles == {<<>>, <<"a.txt">>, <<"b.txt", "a.txt">>}

NextImport ==
  \E p \in {NULL, 1}, st \in ImportStructures, m \in ImportModes,
     up \in UploadedFiles, sp \in BOOLEAN :
    nextId.folder <= ImportRoots /\ ImportFolder("A", "Docs", p, st, m, up, sp)

SpecImport == Init /\ [][NextImport]_vars

\* A's folders, created and moved, and then one walk of the breadcrumbs at a
\* time over the stored folders; a handler suspended at an await is resumed
NextWalk ==
  \/ \E p \in {NULL} \cup CrumbFolderIds :
       reqs = {} /\ nextId.folder <= CrumbFolders /\ CreateFolder("A", "Docs", p)
  \/ \E f \in CrumbFolderIds, p \in {NULL} \cup CrumbFolderIds :
       reqs = {} /\ MoveFolder("A", f, p)
  \/ \E u \in Users, f \in CrumbFolderIds : reqs = {} /\ BreadcrumbsBegin(u, f)
  \/ \E r \in reqs : BreadcrumbsTurn(r)

SpecWalk == Init /\ [][NextWalk]_vars /\ WF_vars(\E r \in reqs : BreadcrumbsTurn(r))

----------------------------------------------------------------------------
(* Folder tree claims *)

\* C2: in every reachable state the parent_id chain of every folder is
\* acyclic: no folder is its own ancestor.
C2_ParentChainAcyclic == \A f \in DOMAIN folders : f \notin Ancestors(f)

\* C10: when owner A deletes root folder F with DELETE /folders/:id, the
\* listing of A's root folders no longer returns F and A's trash returns F.
C10_DeletedFolderInTrash ==
  [][\A u \in Users, f \in FolderIds :
       (/\ f \in DOMAIN folders
        /\ folders[f].owner_email = u
        /\ folders[f].parent_id = NULL
        /\ DeleteFolder(u, f))
       => /\ f \notin ListRootFolders(u)'
          /\ [type |-> "folder", id |-> f] \in TrashItems(u)']_vars

----------------------------------------------------------------------------
(* Trash claims *)

\* C7: a restore by the owner of a soft-deleted file succeeds, clearing
\* is_deleted and deleted_at, if and only if now - deleted_at <= 30 days;
\* otherwise it is rejected and the file stays in the trash unchanged.
C7_RestoreWindowInclusive ==
  [][\A u \in Users, x \in FileIds :
       (/\ x \in DOMAIN files
        /\ files[x].owner_email = u
        /\ files[x].is_deleted
        /\ RestoreFile(u, x))
       => IF now - files[x].deleted_at <= RestoreDays * DaySeconds
          THEN /\ resp'.status = 200
               /\ ~files'[x].is_deleted
               /\ files'[x].deleted_at = NULL
          ELSE /\ resp'.status = 400
               /\ files' = files]_vars

\* C7 witness: a restore was refused for a file deleted 30 days and 1 second
\* before, and the file is still in the trash.
C7_Witness ==
  /\ resp.op = "restore"
  /\ resp.status = 400
  /\ \E x \in DOMAIN files :
       /\ files[x].is_deleted
       /\ now - files[x].deleted_at = RestoreDays * DaySeconds + 1

----------------------------------------------------------------------------
(* Permission claims *)

\* the order of the roles a grant can carry: viewer < editor < admin
RoleRank(role) == CASE role = "viewer" -> 1 [] role = "editor" -> 2 [] role = "admin" -> 3

\* the rows of one (resource_type, resource_id, user_email)
SameKey(p, q) ==
  /\ permissions[p].resource_type = permissions[q].resource_type
  /\ permissions[p].resource_id = permissions[q].resource_id
  /\ permissions[p].user_email = permissions[q].user_email

\* C1: hasPermission(U, T, R, role) allows if and only if R exists and U is
\* its owner or a permissions row for (T, R, U) has a rank >= the rank of the
\* required role; a missing resource is never allowed.
C1_HasPermissionIffOwnerOrGrant ==
  \A u \in Users, t \in ResourceTypes, r \in ShareIds, role \in GrantRoles :
    hasPermission(u, t, r, role)
      <=> /\ r \in DOMAIN Table(t)
          /\ \/ Table(t)[r].owner_email = u
             \/ \E p \in PermissionRows(u, t, r) :
                  RoleRank(permissions[p].permission_type) >= RoleRank(role)

\* C6: in every reachable state the permissions table holds at most one row
\* per (resource_type, resource_id, user_email).
C6_OneRowPerKey ==
  \A p \in DOMAIN permissions, q \in DOMAIN permissions : SameKey(p, q) => p = q

\* C5: a POST /share/user by the owner that follows another one for the same
\* (resourceType, resourceId, userEmail) leaves exactly one row for that key,
\* with the role of the later call; so does every grant the owner makes with
\* no other request in between.
C5_RegrantUpdates ==
  [][(resp'.op = "shareUser" /\ resp'.status = 200) =>
       \A g \in Users, r \in ShareIds, t \in ResourceTypes, p \in GrantRoles :
         ShareUserRefusal(g, r, t, p) = NULL =>
           \A u \in Users :
             ShareUser(g, r, t, u, p)
             => /\ Cardinality(PermissionRows(u, t, r)') = 1
                /\ \A row \in PermissionRows(u, t, r)' : permissions'[row].permission_type = p
                /\ PermissionRows(u, t, r) \subseteq PermissionRows(u, t, r)']_vars

\* C5 witness: the owner's second grant for a key has been answered as an
\* update, and the key has one row.
C5_Witness ==
  /\ resp.op = "shareUser"
  /\ resp.message = "Permission updated successfully"
  /\ Cardinality(DOMAIN permissions) = 1
  /\ \E p \in DOMAIN permissions :
       permissions[p].permission_type = "editor" /\ permissions[p].user_email = "B"

\* C8: POST /share/link creates a shared_links row only when the caller owns
\* the resource; a caller who holds only a grant on it is refused with
\* Forbidden (403) and no row is created.
C8_GranteeGetsForbidden ==
  [][\A u \in Users, r \in ShareIds, t \in ResourceTypes :
       CreateLink(u, r, t, NULL, NULL)
       => /\ shared_links' # shared_links => Table(t)[r].owner_email = u
          /\ (/\ r \in DOMAIN Table(t)
              /\ Table(t)[r].owner_email # u
              /\ PermissionRows(u, t, r) # {})
             => (resp'.status = 403 /\ shared_links' = shared_links)]_vars

\* C9: after owner A creates folder F and file X inside F and grants B the
\* editor role on F, a rename of X by B with a non-empty name succeeds: the
\* name of X becomes the new name and updated_at is set.
C9_FolderEditorRenamesFile ==
  [][\A b \in Users, x \in ShareIds, n \in Names \ {""} :
       (/\ x \in DOMAIN files
        /\ ~files[x].is_deleted
        /\ files[x].folder_id \in DOMAIN folders
        /\ folders[files[x].folder_id].owner_email = files[x].owner_email
        /\ files[x].owner_email # b
        /\ \E p \in PermissionRows(b, "folder", files[x].folder_id) :
             permissions[p].permission_type = "editor"
        /\ RenameFile(b, x, n))
       => /\ resp'.status = 200
          /\ files'[x].name = n
          /\ files'[x].updated_at = now]_vars

----------------------------------------------------------------------------
(* Public link claims *)

\* the target of link l is stored and, if a file, not in the trash
TargetLive(l) ==
  ResourceStatus(shared_links[l].resource_type, shared_links[l].resource_id) = 200

\* a link with a quota and no expiry
Quota(l) == shared_links[l].max_accesses # NULL /\ shared_links[l].expires_at = NULL

\* C3: for a link with max_accesses = N and no expiry, the resolutions that
\* pass the quota check and return the resource never number more than N.
C3_NoOvershoot ==
  \A l \in DOMAIN shared_links : Quota(l) => served[l] <= shared_links[l].max_accesses

\* C4: for a link with max_accesses = N >= 1, no expiry and a live target,
\* resolved one request after another: a resolution succeeds and raises
\* access_count by one while access_count < N, and fails with Gone (410),
\* changing nothing, from then on; so exactly the first N succeed.
C4_SequentialQuota ==
  /\ [](\A l \in DOMAIN shared_links :
          Quota(l) => /\ served[l] <= shared_links[l].access_count
                      /\ shared_links[l].access_count <= shared_links[l].max_accesses)
  /\ [][\A token \in Tokens :
          LET l == LinkOfToken(token) IN
          (/\ resp'.op = "resolveLink"
           /\ l # NULL
           /\ Quota(l)
           /\ TargetLive(l)
           /\ ResolveLink(token))
          => IF shared_links[l].access_count < shared_links[l].max_accesses
             THEN /\ resp'.status = 200
                  /\ shared_links'[l].access_count = shared_links[l].access_count + 1
                  /\ served'[l] = served[l] + 1
             ELSE /\ resp'.status = 410
                  /\ shared_links' = shared_links
                  /\ served' = served]_vars

\* C4 witness: a link with a quota of at least 2, no expiry and a live target
\* has served exactly its quota, and the resolution after that got 410.
C4_Witness ==
  /\ resp.op = "resolveLink"
  /\ resp.status = 410
  /\ \E l \in DOMAIN shared_links :
       /\ Quota(l)
       /\ TargetLive(l)
       /\ shared_links[l].max_accesses >= 2
       /\ served[l] = shared_links[l].max_accesses
       /\ shared_links[l].access_count = shared_links[l].max_accesses

\* C11: the access_count of a public link is 0 at creation and never
\* decreases: after every step, also of interleaved resolutions of one token,
\* the stored access_count is >= the stored access_count before the step.
C11_AccessCountMonotone ==
  [][\A l \in DOMAIN shared_links' :
       IF l \in DOMAIN shared_links
       THEN shared_links'[l].access_count >= shared_links[l].access_count
       ELSE shared_links'[l].access_count = 0]_vars

----------------------------------------------------------------------------
(* File claims *)

\* C12: a file whose is_deleted is true is returned by no non-trash read (GET
\* /files, download, view, GET /search and its starred, recent, suggestions,
\* advanced and shared variants), for any caller and any query parameters; GET
\* /files/trash returns it to its owner.
C12_DeletedOnlyInTrash ==
  \A x \in DOMAIN files :
    files[x].is_deleted =>
      /\ \A u \in Users : x \notin NonTrashReads(u)
      /\ x \in Trash(files[x].owner_email)

\* C12 witness: B's file is in the trash, starred and granted to A, and B's
\* trash returns it.
C12_Witness ==
  \E x \in DOMAIN files :
    /\ files[x].is_deleted
    /\ files[x].is_starred
    /\ files[x].owner_email = "B"
    /\ x \in getPermittedIds("A", "file", "viewer")
    /\ x \in Trash("B")

\* C18: DELETE /files/:id/permanent deletes the file's row if and only if the
\* caller owns the file and the file is in the trash; otherwise it answers 404
\* and changes nothing; a failure of the object store's delete does not stop
\* the row's deletion nor the 200.
C18_PurgeOwnerTrashOnly ==
  [][resp'.op = "permanentDelete" =>
       \A u \in Users, x \in FileIds, e \in BOOLEAN :
         PermanentDelete(u, x, e)
         => IF /\ x \in DOMAIN files
               /\ files[x].owner_email = u
               /\ files[x].is_deleted
            THEN /\ resp'.status = 200
                 /\ x \notin DOMAIN files'
                 /\ \A y \in DOMAIN files \ {x} : y \in DOMAIN files' /\ files'[y] = files[y]
            ELSE /\ resp'.status = 404
                 /\ files' = files]_vars

\* C18 witness: a purge has been answered 200, the one file ever uploaded is
\* gone, and the grant on it is still there.
C18_Witness ==
  /\ resp.op = "permanentDelete"
  /\ resp.status = 200
  /\ nextId.file = 2
  /\ files = Empty
  /\ permissions # Empty

\* C13: in every reachable state the folder_id of every live file and the
\* parent_id of every folder is null or the id of an existing folder (the
\* folders table has no deleted flag: a deleted folder is a missing one).
C13_NoDanglingReference ==
  /\ \A x \in DOMAIN files :
       ~files[x].is_deleted =>
         files[x].folder_id = NULL \/ files[x].folder_id \in DOMAIN folders
  /\ \A f \in DOMAIN folders :
       folders[f].parent_id = NULL \/ folders[f].parent_id \in DOMAIN folders

\* C13 witness: two folders and a file were created, and a folder deletion has
\* left none of them.
C13_Witness ==
  /\ resp.op = "deleteFolder"
  /\ resp.status = 200
  /\ nextId.folder = 3
  /\ nextId.file = 2
  /\ folders = Empty
  /\ files = Empty

\* the caller owns folder p or holds a grant on it of rank editor or higher
MayPlaceUnder(u, p) ==
  \/ folders[p].owner_email = u
  \/ \E q \in PermissionRows(u, "folder", p) :
       RoleRank(permissions[q].permission_type) >= RoleRank("editor")

\* the caller does not own folder p and every grant it holds on p is viewer
OnlyViewerOn(u, p) ==
  /\ folders[p].owner_email # u
  /\ PermissionRows(u, "folder", p) # {}
  /\ \A q \in PermissionRows(u, "folder", p) : permissions[q].permission_type = "viewer"

\* C14: a createFolder or moveFolder that places a folder under an existing
\* parent p succeeds only if the caller owns p or holds a grant of rank editor
\* or higher on p; a caller whose only grant on p is viewer is answered 403 and
\* the folders are unchanged.
C14_PlacingNeedsEditor ==
  [][resp'.op \in {"createFolder", "moveFolder"} =>
       \A u \in Users, p \in DOMAIN folders :
         /\ CreateFolder(u, "Docs", p) =>
              /\ resp'.status = 200 => MayPlaceUnder(u, p)
              /\ OnlyViewerOn(u, p) => resp'.status = 403 /\ folders' = folders
         /\ \A f \in DOMAIN folders :
              (folders[f].owner_email = u /\ f # p /\ MoveFolder(u, f, p)) =>
                /\ resp'.status = 200 => MayPlaceUnder(u, p)
                /\ OnlyViewerOn(u, p) => resp'.status = 403 /\ folders' = folders]_vars

\* the ids of the resources of type t that u owns
OwnedIds(u, t) ==
  {x \in DOMAIN (IF t = "file" THEN files ELSE folders) :
     (IF t = "file" THEN files ELSE folders)[x].owner_email = u}

\* the resource_ids of the permissions rows for (t, u) of rank >= the rank of r
GrantedIds(u, t, r) ==
  {permissions[q].resource_id :
     q \in {q \in DOMAIN permissions :
              /\ permissions[q].resource_type = t
              /\ permissions[q].user_email = u
              /\ RoleRank(permissions[q].permission_type) >= RoleRank(r)}}

\* C15: for every identity, resource type and required role, getPermittedIds
\* returns exactly the ids of the resources of that type the identity owns
\* together with the resource_ids of its permissions rows of that type whose
\* role ranks at least the required role.
C15_PermittedIdsExact ==
  \A u \in Users, t \in ResourceTypes, r \in GrantRoles :
    getPermittedIds(u, t, r) = OwnedIds(u, t) \cup GrantedIds(u, t, r)

\* C15 witness: B holds a viewer grant on A's folder (in B's viewer list, not
\* in its editor list) and A an editor grant on B's file (in A's editor list,
\* not in its admin list).
C15_Witness ==
  /\ \E x \in DOMAIN files : files[x].owner_email = "B"
  /\ \E f \in DOMAIN folders :
       /\ folders[f].owner_email = "A"
       /\ f \in getPermittedIds("B", "folder", "viewer")
       /\ f \notin getPermittedIds("B", "folder", "editor")
  /\ \E x \in DOMAIN files :
       /\ files[x].owner_email = "B"
       /\ x \in getPermittedIds("A", "file", "editor")
       /\ x \notin getPermittedIds("A", "file", "admin")

\* link l, whose token is l, was created and its row is gone
Revoked(l) == l < nextId.link /\ l \notin DOMAIN shared_links

\* C16: DELETE /share/link/:id removes the row of the link, and only that row,
\* when the caller is its created_by; any other caller is answered 404 and the
\* rows are unchanged.  A row goes only by such a revoke and never comes back,
\* and every resolution of the token of a revoked link is answered 404.
C16_RevokeByCreatorOnly ==
  /\ [][resp'.op = "deleteLink" =>
          \A u \in Users, l \in LinkIds :
            DeleteLink(u, l)
            => IF l \in DOMAIN shared_links /\ shared_links[l].created_by = u
               THEN /\ resp'.status = 200
                    /\ DOMAIN shared_links' = DOMAIN shared_links \ {l}
                    /\ \A k \in DOMAIN shared_links' : shared_links'[k] = shared_links[k]
               ELSE /\ resp'.status = 404
                    /\ shared_links' = shared_links]_vars
  /\ [][\A l \in LinkIds :
          /\ (l \in DOMAIN shared_links /\ l \notin DOMAIN shared_links')
               => resp'.op = "deleteLink" /\ resp'.status = 200
          /\ Revoked(l) => Revoked(l)'
          /\ (Revoked(l) /\ resp'.op = "resolveLink" /\ ResolveLink(l))
               => /\ resp'.status = 404
                  /\ shared_links' = shared_links
                  /\ served' = served]_vars

\* C16 witness: the link served a resolution, was revoked by its creator, and
\* the resolution after the revoke got 404.
C16_Witness ==
  /\ resp.op = "resolveLink"
  /\ resp.status = 404
  /\ Revoked(1)
  /\ served[1] >= 1

\* a resolution that starts now on link l is refused with 410
Gone(l) == l \in DOMAIN shared_links /\ ResolveRefusal(l) = 410

\* a resolution that starts now on link l passes the checks and is answered
\* with the resource
Resolvable(l) ==
  l \in DOMAIN shared_links /\ ResolveRefusal(l) = NULL /\ TargetLive(l)

\* C17: once a resolution of a link's token has been answered 410, no
\* resolution that starts later on that token succeeds: no step that follows
\* the 410, a write of a resolution still in flight included, leaves the link
\* so that a resolution starting then is answered with the resource.
C17_GoneIsFinal ==
  [][\A l \in LinkIds :
       (resp.op = "resolveLink" /\ resp.status = 410 /\ Gone(l)) => ~Resolvable(l)']_vars

----------------------------------------------------------------------------
(* Read claims *)

\* u neither owns resource x of type t nor holds a grant on it
Stranger(u, t, x) ==
  /\ x \in DOMAIN Table(t) => Table(t)[x].owner_email # u
  /\ PermissionRows(u, t, x) = {}

\* C19: a caller who neither owns id x nor holds a grant on it gets 404 from
\* the download and the view of file x and from the breadcrumbs of folder x,
\* whether x exists or not.
C19_StrangerSeesNotFound ==
  \A u \in Users, x \in ShareIds :
    /\ Stranger(u, "file", x) => FileReadStatus(u, x) = 404
    /\ Stranger(u, "folder", x) => BreadcrumbsStatus(u, x) = 404

\* the parent chain of folder l ends at a root without passing a folder twice
AcyclicChain(l) == \A f \in {l} \cup Ancestors(l) : f \notin Ancestors(f)

\* C20: for every folder l whose parent chain is acyclic, the breadcrumbs of l
\* are the {id, name} of l and its ancestors, root first: the first is the
\* ancestor without a parent, each is the parent of the next, the last is l.
C20_BreadcrumbsRootFirst ==
  \A l \in DOMAIN folders :
    AcyclicChain(l) =>
      LET b == Breadcrumbs(l) IN
      /\ Len(b) = Cardinality(Ancestors(l)) + 1
      /\ folders[b[1].id].parent_id = NULL
      /\ b[Len(b)].id = l
      /\ \A i \in 1..(Len(b) - 1) : folders[b[i + 1].id].parent_id = b[i].id
      /\ \A i \in 1..Len(b) : b[i].name = folders[b[i].id].name

\* C20 witness: folder 2 was moved from under folder 1 to the root and folder
\* 1 under folder 3, itself under 2: the breadcrumbs of 1 are 2, 3, 1.
C20_Witness ==
  /\ DOMAIN folders = {1, 2, 3}
  /\ AcyclicChain(1)
  /\ Len(Breadcrumbs(1)) = 3
  /\ [i \in 1..3 |-> Breadcrumbs(1)[i].id] = <<2, 3, 1>>

----------------------------------------------------------------------------
(* Ownership claims *)

\* C21: a folder or a file is created with the owner_email of the caller that
\* creates it, also inside a parent folder of another owner, and no request
\* changes the owner_email of a row that stays.
C21_OwnerIsCreatorForGood ==
  [][/\ \A f \in DOMAIN folders \cap DOMAIN folders' :
          folders'[f].owner_email = folders[f].owner_email
     /\ \A x \in DOMAIN files \cap DOMAIN files' :
          files'[x].owner_email = files[x].owner_email
     /\ resp'.op = "createFolder" =>
          \A u \in Users, p \in {NULL} \cup RefFolderIds :
            CreateFolder(u, "Docs", p) =>
              \A f \in DOMAIN folders' \ DOMAIN folders : folders'[f].owner_email = u
     /\ resp'.op = "upload" =>
          \A u \in Users, p \in {NULL} \cup RefFolderIds :
            UploadFile(u, p) =>
              \A x \in DOMAIN files' \ DOMAIN files : files'[x].owner_email = u]_vars

\* C21 witness: B has created a folder and uploaded a file inside A's folder,
\* the file has been starred, and the folder has a public link.
C21_Witness ==
  /\ \E f \in DOMAIN folders :
       /\ folders[f].owner_email = "B"
       /\ folders[f].parent_id \in DOMAIN folders
       /\ folders[folders[f].parent_id].owner_email = "A"
  /\ \E x \in DOMAIN files :
       /\ files[x].owner_email = "B"
       /\ files[x].is_starred
       /\ files[x].folder_id \in DOMAIN folders
       /\ folders[files[x].folder_id].owner_email = "A"
  /\ shared_links # Empty

----------------------------------------------------------------------------
(* Import claims *)

\* the folder items of a structure, in their order, each with the folder items
\* nested in it
RECURSIVE FolderShapeFrom(_, _)
FolderShapeFrom(structure, i) ==
  IF i > Len(structure) THEN <<>>
  ELSE IF structure[i].type = "folder"
       THEN <<[name |-> structure[i].name,
               inside |-> FolderShapeFrom(structure[i].contents, 1)]>>
            \o FolderShapeFrom(structure, i + 1)
       ELSE FolderShapeFrom(structure, i + 1)

\* the folders in children, in the order of their ids, each with the folders of
\* table t under it
RECURSIVE TreeShapeOf(_, _)
TreeShapeOf(t, children) ==
  IF children = {} THEN <<>>
  ELSE LET c == CHOOSE x \in children : \A y \in children : x <= y IN
       <<[name |-> t[c].name,
          inside |-> TreeShapeOf(t, {f \in DOMAIN t : f > c /\ t[f].parent_id = c})]>>
       \o TreeShapeOf(t, children \ {c})

\* the folders under folder id in table t, in the order of their creation
TreeShape(t, id) == TreeShapeOf(t, {f \in DOMAIN t : f > id /\ t[f].parent_id = id})

\* an import that was answered 200 with these inputs
Imported(u, p, st, m, up, sp) ==
  resp'.op = "import" /\ resp'.status = 200 /\ ImportFolder(u, "Docs", p, st, m, up, sp)

\* C22: an import keeps the declared nesting: the new root folder has the given
\* parentId (or null) as parent_id, and the folders under it are those of the
\* structure, a folder item nested in folder item m lying under the folder
\* created for m, at every depth, in both modes.
C22_ImportKeepsNesting ==
  [][resp'.op = "import" /\ resp'.status = 200 =>
       \A p \in {NULL, 1}, st \in ImportStructures, m \in ImportModes,
          up \in UploadedFiles, sp \in BOOLEAN :
         Imported("A", p, st, m, up, sp) =>
           /\ nextId.folder \in DOMAIN folders' \ DOMAIN folders
           /\ folders'[nextId.folder].parent_id = p
           /\ TreeShape(folders', nextId.folder) = FolderShapeFrom(st, 1)
           /\ \A f \in DOMAIN folders' \ DOMAIN folders :
                f # nextId.folder =>
                  /\ folders'[f].parent_id \in DOMAIN folders' \ DOMAIN folders
                  /\ folders'[f].parent_id < f]_vars

\* C22 witness: the structure with a folder nested in a folder and a file in
\* it has been imported in files mode under folder 1.
C22_Witness ==
  /\ resp.op = "import"
  /\ resp.status = 200
  /\ resp.folder = 2
  /\ folders[2].parent_id = 1
  /\ \E f, g \in DOMAIN folders :
       /\ folders[f].parent_id = 2
       /\ folders[g].parent_id = f
       /\ \E x \in DOMAIN files : files[x].folder_id = g

----------------------------------------------------------------------------
(* Breadcrumbs walk claims *)

\* C23: the walk of GET /folders/:id/breadcrumbs ends for every stored folder
\* graph, a graph with a cycle of parent_id included: a walk that has begun is
\* answered.
C23_WalkEnds == (reqs # {}) ~> (reqs = {})

----------------------------------------------------------------------------
(* Deletion claims *)

\* C24: after a DELETE /folders/:id of folder f answered 200, every file whose
\* folder_id was f is soft-deleted (is_deleted true, deleted_at set), whoever
\* owns the file.
C24_FolderDeleteTrashesFiles ==
  [][resp'.op = "deleteFolder" /\ resp'.status = 200 =>
       \A u \in Users, f \in FolderIds :
         DeleteFolder(u, f) =>
           \A x \in DOMAIN files :
             files[x].folder_id = f =>
               /\ x \in DOMAIN files'
               /\ files'[x].is_deleted
               /\ files'[x].deleted_at # NULL]_vars

\* C25: a resolution of a public link that fails (404 for an unknown token,
\* 410 for an expired or exhausted link, 404 for a missing or soft-deleted
\* target) leaves the access_count of every link unchanged.
C25_FailedResolutionCountsNothing ==
  [][resp'.op = "resolveLink" /\ resp'.status # 200 =>
       \A token \in Tokens :
         ResolveLink(token) => shared_links' = shared_links]_vars

----------------------------------------------------------------------------
(* Import report claims *)

\* the ids in an array of the answer
Ids(array) == {array[k] : k \in 1..Len(array)}

\* C26: the answer of an import reports exactly what it created: folder and
\* importedFolders are the folder rows the import inserted, at every depth, and
\* importedFiles the file rows it inserted, in both modes.
C26_ImportReportsWhatItCreated ==
  [][resp'.op = "import" /\ resp'.status = 200 =>
       /\ {resp'.folder} \cup Ids(resp'.importedFolders) = DOMAIN folders' \ DOMAIN folders
       /\ Ids(resp'.importedFiles) = DOMAIN files' \ DOMAIN files]_vars

\* the number of file items of one level of a structure
FileCount(structure) ==
  Cardinality({k \in 1..Len(structure) : structure[k].type = "file"})

\* the folder items of a structure from item i on, in order, each with the
\* number of its file items and the folder items inside it
RECURSIVE FileTreeFrom(_, _)
FileTreeFrom(structure, i) ==
  IF i > Len(structure) THEN <<>>
  ELSE IF structure[i].type = "folder"
       THEN <<[fileRecords |-> FileCount(structure[i].contents),
               inside |-> FileTreeFrom(structure[i].contents, 1)]>>
            \o FileTreeFrom(structure, i + 1)
       ELSE FileTreeFrom(structure, i + 1)

\* the number of rows of table tfiles in folder id
FileRecords(tfiles, id) ==
  Cardinality({x \in DOMAIN tfiles : tfiles[x].folder_id = id})

\* the folders in children, in the order of their ids, each with the number of
\* its file rows and the folders under it
RECURSIVE StoredTreeOf(_, _, _)
StoredTreeOf(t, tfiles, children) ==
  IF children = {} THEN <<>>
  ELSE LET c == CHOOSE x \in children : \A y \in children : x <= y IN
       <<[fileRecords |-> FileRecords(tfiles, c),
          inside |-> StoredTreeOf(t, tfiles,
                                  {f \in DOMAIN t : f > c /\ t[f].parent_id = c})]>>
       \o StoredTreeOf(t, tfiles, children \ {c})

\* C27: an import creates exactly one file record for every file item of the
\* structure, in the folder created for the folder item around it (the new
\* root folder for the items of the first level), whether or not an uploaded
\* file matches the item; no file item is skipped and no uploaded file gives a
\* second record.
C27_OneRecordPerFileItem ==
  [][resp'.op = "import" /\ resp'.status = 200 =>
       \A p \in {NULL, 1}, st \in ImportStructures, m \in ImportModes,
          up \in UploadedFiles, sp \in BOOLEAN :
         Imported("A", p, st, m, up, sp) =>
           /\ FileRecords(files', nextId.folder) = FileCount(st)
           /\ StoredTreeOf(folders', files',
                           {f \in DOMAIN folders' :
                              f > nextId.folder /\ folders'[f].parent_id = nextId.folder})
                = FileTreeFrom(st, 1)]_vars

----------------------------------------------------------------------------
(* Authorization claims *)

\* C28: in every reachable state no permissions row represents ownership: no
\* row names as user_email the owner_email of the resource it refers to, and
\* no row has permission_type 'owner'.
C28_OwnershipIsNeverAGrant ==
  \A p \in DOMAIN permissions :
    /\ permissions[p].permission_type # "owner"
    /\ permissions[p].resource_id \in DOMAIN Table(permissions[p].resource_type) =>
         permissions[p].user_email #
           Table(permissions[p].resource_type)[permissions[p].resource_id].owner_email

\* the roles an authorization check can require
RequiredRoles == GrantRoles \cup {"owner"}

\* C29: the two authorization paths agree: for every identity, resource type,
\* stored resource and required role among viewer, editor, admin and owner,
\* hasPermission allows exactly when the id of the resource is in
\* getPermittedIds, in every reachable state.
C29_AuthorizationPathsAgree ==
  \A u \in Users, t \in ResourceTypes, r \in RequiredRoles :
    \A id \in DOMAIN Table(t) :
      hasPermission(u, t, id, r) <=> id \in getPermittedIds(u, t, r)

----------------------------------------------------------------------------
(* Trash time claims *)

\* C30: once a file is soft-deleted its deleted_at does not change until the
\* file is restored or purged: a repeated delete of the file leaves deleted_at
\* at the time of the first deletion.
C30_DeletedAtIsKept ==
  [][\A x \in DOMAIN files :
       (files[x].is_deleted /\ x \in DOMAIN files' /\ files'[x].is_deleted) =>
         files'[x].deleted_at = files[x].deleted_at]_vars

====
